---- MODULE Spec2Model ----
(***************************************************************************)
(* Model of bclustering/metric.py: the covariance algebra (cov2err,        *)
(* cov2corr, corr2cov, rel2abs_cov), the DataWithErrors container and      *)
(* chi2_metric.                                                            *)
(*                                                                         *)
(* Numbers.  A float64 is modelled as a fixed-point number: the record     *)
(* [fin |-> TRUE, v |-> r] stands for r / Scale; the three non-finite      *)
(* values are [fin |-> FALSE, v |-> 0] (NaN), v = 1 (+inf), v = -1 (-inf). *)
(* Sums and differences are exact, products, quotients and square roots    *)
(* are rounded towards zero, and the IEEE rules for NaN and inf are kept.  *)
(*                                                                         *)
(* Arrays.  An ndarray is [shape |-> <<d1,..,dr>>, at |-> f] with f a      *)
(* function on the index tuples of that shape; broadcasting and the        *)
(* einsum subscripts are computed from the shapes as numpy computes them.  *)
(*                                                                         *)
(* Objects.  heap maps an address to the array stored there; _data and     *)
(* _cov hold addresses, so that two names for one array are visible.       *)
(***************************************************************************)
EXTENDS Integers, Sequences, FiniteSets, Bags, TLC

VARIABLES n, nbins, heap, _data, _cov, retRef, last, calls, applied

vars == <<n, nbins, heap, _data, _cov, retRef, last, calls, applied>>

(* ------------------------------ bounds --------------------------------- *)

Scale == 10
MaxN == 2
MaxBins == 2
MaxCalls == 2

(* ------------------------------ float64 -------------------------------- *)

F(r) == [fin |-> TRUE, v |-> r]
Num(x) == F(x * Scale)
NaN == [fin |-> FALSE, v |-> 0]
Inf(s) == [fin |-> FALSE, v |-> s]
IsNaN(x) == ~x.fin /\ x.v = 0
Sign(r) == IF r > 0 THEN 1 ELSE IF r < 0 THEN -1 ELSE 0
Abs(r) == IF r < 0 THEN -r ELSE r
TruncDiv(a, d) == Sign(a) * Sign(d) * (Abs(a) \div Abs(d))
ISqrt(x) == CHOOSE r \in 0..x : r * r <= x /\ (r + 1) * (r + 1) > x

FNeg(x) == IF x.fin THEN F(-x.v) ELSE IF IsNaN(x) THEN NaN ELSE Inf(-x.v)

FAdd(x, y) ==
  IF IsNaN(x) \/ IsNaN(y) THEN NaN
  ELSE IF x.fin /\ y.fin THEN F(x.v + y.v)
  ELSE IF x.fin THEN y
  ELSE IF y.fin THEN x
  ELSE IF x.v = y.v THEN x ELSE NaN

FSub(x, y) == FAdd(x, FNeg(y))

FMul(x, y) ==
  IF IsNaN(x) \/ IsNaN(y) THEN NaN
  ELSE IF x.fin /\ y.fin THEN F(TruncDiv(x.v * y.v, Scale))
  ELSE IF Sign(x.v) * Sign(y.v) = 0 THEN NaN
  ELSE Inf(Sign(x.v) * Sign(y.v))

FDiv(x, y) ==
  IF IsNaN(x) \/ IsNaN(y) THEN NaN
  ELSE IF x.fin /\ y.fin THEN
         IF y.v # 0 THEN F(TruncDiv(x.v * Scale, y.v))
         ELSE IF x.v = 0 THEN NaN ELSE Inf(Sign(x.v))
  ELSE IF ~x.fin /\ ~y.fin THEN NaN
  ELSE IF x.fin THEN F(0)
  ELSE Inf(x.v * (IF y.v < 0 THEN -1 ELSE 1))

FSqrt(x) ==
  IF x.fin THEN (IF x.v < 0 THEN NaN ELSE F(ISqrt(x.v * Scale)))
  ELSE IF x.v = 1 THEN x ELSE NaN

FSquare(x) == FMul(x, x)

FGeqZero(x) == IF x.fin THEN x.v >= 0 ELSE x.v = 1

(* ------------------------------ ndarrays ------------------------------- *)

Idx(shape) ==
  IF Len(shape) = 0 THEN {<< >>}
  ELSE IF Len(shape) = 1 THEN {<<i>> : i \in 1..shape[1]}
  ELSE IF Len(shape) = 2 THEN (1..shape[1]) \X (1..shape[2])
  ELSE (1..shape[1]) \X (1..shape[2]) \X (1..shape[3])

\* py is the Python type of the object: "ndarray", "list", "float" or "int"
\* (f = f makes the entries be computed once, when the array is made)
Arr(shape, f) == [shape |-> shape, at |-> IF f = f THEN f ELSE f, py |-> "ndarray"]
Scalar(py, x) == [shape |-> << >>, at |-> [i \in {<< >>} |-> x], py |-> py]
Rank(a) == Len(a.shape)
Min(a, b) == IF a <= b THEN a ELSE b

\* numpy broadcasting of an operand of shape xs into a result of shape ts
\* (trailing axes are aligned, an axis of length 1 is repeated)
CanBroadcast(xs, ts) ==
  /\ Len(xs) <= Len(ts)
  /\ \A m \in 1..Len(xs) : xs[m] = 1 \/ xs[m] = ts[Len(ts) - Len(xs) + m]

BIdx(idx, xs) ==
  [m \in 1..Len(xs) |-> IF xs[m] = 1 THEN 1 ELSE idx[Len(idx) - Len(xs) + m]]

\* an einsum label: the lengths the operands give it agree up to axes of length 1
LabelOk(dims) == Cardinality(dims \ {1}) <= 1
LabelDim(dims) == IF dims \ {1} = {} THEN 1 ELSE CHOOSE d \in dims \ {1} : TRUE
Pick(d, i) == IF d = 1 THEN 1 ELSE i

Ok(a) == [ok |-> TRUE, val |-> a, exc |-> "none"]
None == Scalar("None", NaN)
Raise(e) == [ok |-> FALSE, val |-> None, exc |-> e]

RECURSIVE FSum(_)
FSum(s) == IF Len(s) = 0 THEN F(0) ELSE FAdd(FSum(SubSeq(s, 1, Len(s) - 1)), s[Len(s)])

(* ------------------------- covariance algebra -------------------------- *)

cov2err(cov) ==
  IF Rank(cov) = 2 THEN
    LET m == Min(cov.shape[1], cov.shape[2]) IN
    Ok(Arr(<<m>>, [idx \in Idx(<<m>>) |-> FSqrt(cov.at[<<idx[1], idx[1]>>])]))
  ELSE IF Rank(cov) = 3 THEN
    LET sh == <<cov.shape[1], Min(cov.shape[2], cov.shape[3])>> IN
    Ok(Arr(sh, [idx \in Idx(sh) |-> FSqrt(cov.at[<<idx[1], idx[2], idx[2]>>])]))
  ELSE Raise("ValueError")

cov2corr(cov) ==
  LET divide(e) ==
        IF ~e.ok THEN e
        ELSE IF Rank(cov) = 2 THEN
          LET m == e.val.shape[1] IN
          IF ~CanBroadcast(<<m, m>>, cov.shape) THEN Raise("ValueError")
          ELSE Ok(Arr(cov.shape, [idx \in Idx(cov.shape) |->
                 FDiv(cov.at[idx], FMul(e.val.at[<<Pick(m, idx[1])>>],
                                         e.val.at[<<Pick(m, idx[2])>>]))]))
        ELSE
          LET m == e.val.shape[2] IN
          IF ~CanBroadcast(<<cov.shape[1], m, m>>, cov.shape) THEN Raise("ValueError")
          ELSE Ok(Arr(cov.shape, [idx \in Idx(cov.shape) |->
                 FDiv(cov.at[idx], FMul(e.val.at[<<idx[1], Pick(m, idx[2])>>],
                                         e.val.at[<<idx[1], Pick(m, idx[3])>>]))]))
  IN divide(cov2err(cov))

corr2cov(corr, err) ==
  IF corr.py # "ndarray" THEN Raise("AttributeError")
  ELSE IF Rank(corr) = 2 THEN
    \* np.einsum("ij,i,j->ij", corr, err, err)
    IF Rank(err) # 1 THEN Raise("ValueError")
    ELSE LET di == {corr.shape[1], err.shape[1]}
             dj == {corr.shape[2], err.shape[1]}
             sh == <<LabelDim(di), LabelDim(dj)>>
         IN IF ~(LabelOk(di) /\ LabelOk(dj)) THEN Raise("ValueError")
            ELSE Ok(Arr(sh, [idx \in Idx(sh) |->
                   FMul(FMul(corr.at[<<Pick(corr.shape[1], idx[1]),
                                       Pick(corr.shape[2], idx[2])>>],
                             err.at[<<Pick(err.shape[1], idx[1])>>]),
                        err.at[<<Pick(err.shape[1], idx[2])>>])]))
  ELSE IF Rank(corr) = 3 THEN
    \* np.einsum("kij,ki,kj->kij", corr, err, err)
    IF Rank(err) # 2 THEN Raise("ValueError")
    ELSE LET dk == {corr.shape[1], err.shape[1]}
             di == {corr.shape[2], err.shape[2]}
             dj == {corr.shape[3], err.shape[2]}
             sh == <<LabelDim(dk), LabelDim(di), LabelDim(dj)>>
         IN IF ~(LabelOk(dk) /\ LabelOk(di) /\ LabelOk(dj)) THEN Raise("ValueError")
            ELSE Ok(Arr(sh, [idx \in Idx(sh) |->
                   FMul(FMul(corr.at[<<Pick(corr.shape[1], idx[1]),
                                       Pick(corr.shape[2], idx[2]),
                                       Pick(corr.shape[3], idx[3])>>],
                             err.at[<<Pick(err.shape[1], idx[1]),
                                      Pick(err.shape[2], idx[2])>>]),
                        err.at[<<Pick(err.shape[1], idx[1]),
                                 Pick(err.shape[2], idx[3])>>])]))
  ELSE Raise("ValueError")

rel2abs_cov(cov, data) ==
  \* np.einsum("ij,ki,kj->kij", cov, data, data)
  IF Rank(cov) # 2 \/ Rank(data) # 2 THEN Raise("ValueError")
  ELSE LET di == {cov.shape[1], data.shape[2]}
           dj == {cov.shape[2], data.shape[2]}
           sh == <<data.shape[1], LabelDim(di), LabelDim(dj)>>
       IN IF ~(LabelOk(di) /\ LabelOk(dj)) THEN Raise("ValueError")
          ELSE Ok(Arr(sh, [idx \in Idx(sh) |->
                 FMul(FMul(cov.at[<<Pick(cov.shape[1], idx[2]),
                                    Pick(cov.shape[2], idx[3])>>],
                           data.at[<<idx[1], Pick(data.shape[2], idx[2])>>]),
                      data.at[<<idx[1], Pick(data.shape[2], idx[3])>>])]))

abs2rel_cov(cov, data) == Raise("NotImplementedError")

(* ----------------------------- np.linalg.inv ---------------------------- *)

Signed(k, x) == IF k % 2 = 0 THEN x ELSE FNeg(x)

\* a sequence without its j-th element
Drop(s, j) == SubSeq(s, 1, j - 1) \o SubSeq(s, j + 1, Len(s))

\* the determinant of the submatrix of a[k] on the given rows and columns,
\* expanded along its first row
RECURSIVE Det(_, _, _, _)
Det(a, k, rows, cols) ==
  IF Len(rows) = 1 THEN a.at[<<k, rows[1], cols[1]>>]
  ELSE FSum([j \in 1..Len(cols) |->
         Signed(1 + j, FMul(a.at[<<k, rows[1], cols[j]>>],
                            Det(a, k, Tail(rows), Drop(cols, j))))])

Cofactor(a, k, i, j) ==
  LET all == [m \in 1..a.shape[2] |-> m] IN
  IF a.shape[2] = 1 THEN Num(1)
  ELSE Signed(i + j, Det(a, k, Drop(all, i), Drop(all, j)))

\* the inverse of every matrix of the batch; one singular matrix fails the call
linalg_inv(a) ==
  LET K == <<a.shape[1]>>
      all == [m \in 1..a.shape[2] |-> m]
      invert(det) ==
        IF \E k \in Idx(K) : det.at[k].fin /\ det.at[k].v = 0 THEN Raise("LinAlgError")
        ELSE Ok(Arr(a.shape, [idx \in Idx(a.shape) |->
               FDiv(Cofactor(a, idx[1], idx[3], idx[2]), det.at[<<idx[1]>>])]))
  IN invert(Arr(K, [k \in Idx(K) |-> Det(a, k[1], all, all)]))

(* ---------------------------- DataWithErrors --------------------------- *)

\* the object as its methods see it: the arrays its attributes point to
Self == [data |-> heap[_data], cov |-> heap[_cov], n |-> n, nbins |-> nbins]

Zeros(shape) == Arr(shape, [idx \in Idx(shape) |-> F(0)])
Ones(shape) == Arr(shape, [idx \in Idx(shape) |-> Num(1)])
Identity(b) == Arr(<<b, b>>, [idx \in Idx(<<b, b>>) |-> IF idx[1] = idx[2] THEN Num(1) ELSE F(0)])
TileIdentity(k, b) ==
  Arr(<<k, b, b>>, [idx \in Idx(<<k, b, b>>) |-> IF idx[2] = idx[3] THEN Num(1) ELSE F(0)])
Sqrt(a) == Arr(a.shape, [idx \in Idx(a.shape) |-> FSqrt(a.at[idx])])

\* self._cov = cov would replace what was accumulated
set_err_cov(self, cov) ==
  IF ~CanBroadcast(cov.shape, self.cov.shape) THEN Raise("ValueError")
  ELSE Ok(Arr(self.cov.shape, [idx \in Idx(self.cov.shape) |-> cov.at[BIdx(idx, cov.shape)]]))

\* the add_* methods give the new contents of the array self._cov points to
add_err_cov(self, cov) ==
  \* self._cov += cov
  IF ~CanBroadcast(cov.shape, self.cov.shape) THEN Raise("ValueError")
  ELSE Ok(Arr(self.cov.shape, [idx \in Idx(self.cov.shape) |->
         FAdd(self.cov.at[idx], cov.at[BIdx(idx, cov.shape)])]))

add_err_corr(self, err, corr) ==
  LET c == corr2cov(corr, err) IN IF c.ok THEN add_err_cov(self, c.val) ELSE c

add_err_uncorr(self, err) ==
  add_err_corr(self, err, TileIdentity(self.n, self.nbins))

add_rel_err_cov(self, cov) ==
  LET c == rel2abs_cov(cov, self.data) IN IF c.ok THEN add_err_cov(self, c.val) ELSE c

add_rel_err_corr(self, err, corr) ==
  LET c == corr2cov(corr, err) IN IF c.ok THEN add_rel_err_cov(self, c.val) ELSE c

add_rel_err_uncorr(self, err) ==
  add_rel_err_corr(self, err, Identity(self.nbins))

add_rel_err_maxcorr(self, err) ==
  LET e == IF err.py = "float"
           THEN [shape |-> <<self.nbins>>,
                 at |-> [idx \in Idx(<<self.nbins>>) |-> err.at[<< >>]],
                 py |-> "list"]
           ELSE err
  IN add_rel_err_corr(self, e, Ones(<<self.nbins, self.nbins>>))

add_poisson_error(self) == add_err_uncorr(self, Sqrt(self.data))

norms(self) ==
  Arr(<<self.n>>, [idx \in Idx(<<self.n>>) |->
    FSum([i \in 1..self.nbins |-> self.data.at[<<idx[1], i>>]])])

cov(self, relative) ==
  IF ~relative THEN Ok(self.cov) ELSE abs2rel_cov(self.cov, self.data)

corr(self) == cov2corr(self.cov)

err(self, relative) ==
  LET divide(e, nrm) ==
        IF ~relative \/ ~e.ok THEN e
        ELSE \* np.tile(self.norms(), (self.nbins, 1)).T has shape (n, nbins)
             IF ~CanBroadcast(<<self.n, self.nbins>>, e.val.shape) THEN Raise("ValueError")
             ELSE Ok(Arr(e.val.shape, [idx \in Idx(e.val.shape) |->
                    FDiv(e.val.at[idx], nrm.at[<<idx[1]>>])]))
  IN divide(cov2err(self.cov), norms(self))

\* np.asarray(self._data) would hand back the stored array itself
np_asarray(ref) == ref

\* ret = np.array(self._data) makes a new array; this is the address it gets
np_array(ref) == "ret"

\* lines 107-109 of data(): the copy, divided in place when normalize is set
data_normed(self, normalize) ==
  LET ret == self.data
      sh == self.data.shape
      divide(nrm) ==
        \* ret /= self.norms(): the n-vector is broadcast along the last axis
        IF ~CanBroadcast(<<self.n>>, sh) THEN Raise("ValueError")
        ELSE Ok(Arr(sh, [idx \in Idx(sh) |->
               FDiv(ret.at[idx], nrm.at[BIdx(idx, <<self.n>>)])]))
  IN IF ~normalize THEN Ok(ret) ELSE divide(norms(self))

data(self, normalize, decorrelate) ==
  LET sh == self.data.shape
      inv(c) == IF c.ok THEN linalg_inv(c.val) ELSE c
      decorrelated(ret, inverses) ==
        IF ~inverses.ok THEN inverses
        ELSE \* np.einsum("kij,kj->ki", inverses, ret)
             Ok(Arr(sh, [idx \in Idx(sh) |->
               FSum([j \in 1..self.nbins |->
                 FMul(inverses.val.at[<<idx[1], idx[2], j>>], ret.val.at[<<idx[1], j>>])])]))
      body(ret) ==
        IF ~ret.ok \/ ~decorrelate THEN ret ELSE decorrelated(ret, inv(corr(self)))
  IN body(data_normed(self, normalize))

normalized(self) ==
  \* self._data / self.norms(): shapes (n, nbins) and (n,) broadcast together
  LET dl == {self.nbins, self.n}
      sh == <<self.n, LabelDim(dl)>>
      divide(nrm) ==
        Ok(Arr(sh, [idx \in Idx(sh) |->
          FDiv(self.data.at[<<idx[1], Pick(self.nbins, idx[2])>>],
               nrm.at[<<Pick(self.n, idx[2])>>])]))
  IN IF ~LabelOk(dl) THEN Raise("ValueError") ELSE divide(norms(self))

(* ------------------------------ chi2_metric ---------------------------- *)

\* one entry [k, l, i] of nominator and of denominator
nominator(nom1, nom2) == FSquare(FSub(nom1, nom2))
\* a denominator that leaves out den2
denominator_den1(den1, den2) == FSquare(den1)
denominator(den1, den2) == FAdd(FSquare(den1), FSquare(den2))

chi2_metric(dwe) ==
  LET metric(nn, d, e) ==
        LET nom1(k, l, i) == FMul(nn.at[<<k>>], d.val.at[<<l, i>>])
            nom2(k, l, i) == nom1(l, k, i)
            den1(k, l, i) == FMul(nn.at[<<k>>], e.val.at[<<l, i>>])
            den2(k, l, i) == den1(l, k, i)
            summand(k, l, i) == FDiv(nominator(nom1(k, l, i), nom2(k, l, i)),
                                     denominator(den1(k, l, i), den2(k, l, i)))
            chi2(k, l) == FSum([i \in 1..dwe.nbins |-> summand(k, l, i)])
            sh == <<dwe.n, dwe.n>>
        IN IF ~d.ok THEN d
           ELSE IF ~e.ok THEN e
           ELSE Ok(Arr(sh, [idx \in Idx(sh) |-> FDiv(chi2(idx[1], idx[2]), Num(dwe.nbins))]))
  IN metric(norms(dwe), data(dwe, FALSE, TRUE), err(dwe, FALSE))

(* ------------------------------- inputs -------------------------------- *)

\* the histogram batches the caller constructs the dataset from
\* "ramp": every bin filled, histograms of different norm and shape;
\* "hole": histogram k has no entry in bin k
DataKinds == {"ramp", "hole"}
DataInput(k, b, kind) ==
  Arr(<<k, b>>, [idx \in Idx(<<k, b>>) |->
    IF kind = "ramp" THEN Num(idx[1] + idx[2] - 1)
    ELSE IF idx[2] = idx[1] THEN F(0) ELSE Num(idx[1] + 2 * idx[2])])

\* the arrays the caller passes to the add_* methods
Fill(shape, kind) ==
  Arr(shape, [idx \in Idx(shape) |->
    IF kind = "one" THEN Num(1)
    ELSE IF kind = "ramp" THEN (IF Len(shape) = 0 THEN Num(2) ELSE Num(idx[Len(shape)]))
    ELSE IF Len(shape) >= 2 /\ idx[Len(shape) - 1] # idx[Len(shape)] THEN Num(1)
    ELSE Num(2)])

ShapeN == <<n, nbins>>
ShapeB == <<nbins>>
ShapeBB == <<nbins, nbins>>
ShapeNBB == <<n, nbins, nbins>>

\* per method: arguments of the documented shape, then arguments of another
CovArgs ==
  {Fill(ShapeNBB, k) : k \in {"diag", "ramp"}}
    \cup {Fill(sh, "one") : sh \in {<< >>, ShapeB, ShapeBB}}
ErrArgs ==
  {Fill(ShapeN, "ramp")} \cup {Fill(sh, "one") : sh \in {<< >>, ShapeB}}
ErrCorrArgs ==
  {<<Fill(ShapeN, "ramp"), Fill(ShapeNBB, "diag")>>,
   <<Fill(ShapeN, "one"), Fill(ShapeNBB, "ramp")>>,
   <<Fill(ShapeB, "one"), Fill(ShapeBB, "diag")>>,
   <<Fill(ShapeN, "one"), Fill(ShapeBB, "diag")>>}
RelCovArgs ==
  {Fill(ShapeBB, k) : k \in {"diag", "ramp"}}
    \cup {Fill(sh, "one") : sh \in {<< >>, ShapeNBB}}
RelErrArgs ==
  {Fill(ShapeB, "ramp")} \cup {Fill(sh, "one") : sh \in {<< >>, ShapeN}}
Scalars == {Scalar(t, Num(2)) : t \in {"float", "int"}}
MaxcorrArgs ==
  Scalars \cup {Fill(ShapeB, k) : k \in {"diag", "ramp"}} \cup {Fill(ShapeN, "one")}
RelErrCorrArgs ==
  {<<Fill(ShapeB, "one"), Fill(ShapeBB, "diag")>>,
   <<Fill(ShapeN, "one"), Fill(ShapeNBB, "diag")>>}

\* the shapes the docstrings ask for
IsShape(x, sh) == x.py = "ndarray" /\ x.shape = sh

(* ------------------------------- actions ------------------------------- *)

NoFlags == <<FALSE, FALSE>>
CallRec(op, a, c, flags, exc) == [op |-> op, a |-> a, c |-> c, flags |-> flags, exc |-> exc]

Init ==
  /\ n \in 1..MaxN
  /\ nbins \in 1..MaxBins
  \* __init__: self._data = data; self._cov = np.zeros((n, nbins, nbins))
  /\ \E kind \in DataKinds :
       heap = [arg |-> DataInput(n, nbins, kind), cov |-> Zeros(<<n, nbins, nbins>>), ret |-> None]
  /\ _data = "arg"
  /\ _cov = "cov"
  /\ retRef = "none"
  /\ last = CallRec("__init__", None, None, NoFlags, "none")
  /\ calls = 0
  /\ applied = EmptyBag

\* a call of an add_* method: out is the new contents of self._cov, or the exception
Inject(op, a, c, out, track) ==
  /\ calls < MaxCalls
  /\ calls' = calls + 1
  /\ \E o \in {out} :
       /\ heap' = IF o.ok THEN [heap EXCEPT ![_cov] = o.val] ELSE heap
       /\ last' = CallRec(op, a, c, NoFlags, o.exc)
  /\ applied' = IF track THEN applied (+) SetToBag({[op |-> op, a |-> a, c |-> c]}) ELSE applied
  /\ UNCHANGED <<n, nbins, _data, _cov, retRef>>

\* The caller holds at most one returned array, retRef, and lets go of it
\* before the next call that returns one; "ret" is where a new array is put.
\* A call that returns a new array:
Returns(op, flags, out) ==
  /\ calls < MaxCalls
  /\ calls' = calls + 1
  /\ \E o \in {out} :
       /\ heap' = [heap EXCEPT !["ret"] = o.val]
       /\ retRef' = IF o.ok THEN "ret" ELSE "none"
       /\ last' = CallRec(op, None, None, flags, o.exc)
  /\ UNCHANGED <<n, nbins, _data, _cov, applied>>

AddErrCovOf(S, track) ==
  \E x \in S : Inject("add_err_cov", x, None, add_err_cov(Self, x), track)
AddErrUncorrOf(S, track) ==
  \E x \in S : Inject("add_err_uncorr", x, None, add_err_uncorr(Self, x), track)
AddErrCorrOf(S, track) ==
  \E p \in S : Inject("add_err_corr", p[1], p[2], add_err_corr(Self, p[1], p[2]), track)
AddRelErrCovOf(S, track) ==
  \E x \in S : Inject("add_rel_err_cov", x, None, add_rel_err_cov(Self, x), track)
AddRelErrUncorrOf(S, track) ==
  \E x \in S : Inject("add_rel_err_uncorr", x, None, add_rel_err_uncorr(Self, x), track)
AddRelErrMaxcorrOf(S, track) ==
  \E x \in S : Inject("add_rel_err_maxcorr", x, None, add_rel_err_maxcorr(Self, x), track)
AddRelErrCorrOf(S, track) ==
  \E p \in S : Inject("add_rel_err_corr", p[1], p[2], add_rel_err_corr(Self, p[1], p[2]), track)
AddPoissonErrorOf(track) ==
  Inject("add_poisson_error", None, None, add_poisson_error(Self), track)

AddErrCov == AddErrCovOf(CovArgs, FALSE)
AddErrUncorr == AddErrUncorrOf(ErrArgs, FALSE)
AddErrCorr == AddErrCorrOf(ErrCorrArgs, FALSE)
AddRelErrCov == AddRelErrCovOf(RelCovArgs, FALSE)
AddRelErrUncorr == AddRelErrUncorrOf(RelErrArgs, FALSE)
AddRelErrMaxcorr == AddRelErrMaxcorrOf(MaxcorrArgs, FALSE)
AddRelErrCorr == AddRelErrCorrOf(RelErrCorrArgs, FALSE)
AddPoissonError == AddPoissonErrorOf(FALSE)

CallNorms == Returns("norms", NoFlags, Ok(norms(Self)))
\* data(): the copy is made at np_array(_data) and divided there; decorrelate
\* binds ret to the new array einsum returns
CallData ==
  \E normalize \in BOOLEAN, decorrelate \in BOOLEAN :
    /\ calls < MaxCalls
    /\ calls' = calls + 1
    /\ \E normed \in {data_normed(Self, normalize)},
          out \in {data(Self, normalize, decorrelate)} :
         LET r == np_array(_data)
             h0 == [heap EXCEPT !["ret"] = None]
             h1 == IF normed.ok THEN [h0 EXCEPT ![r] = normed.val] ELSE h0
             fresh == out.ok /\ decorrelate
         IN /\ heap' = IF fresh THEN [h1 EXCEPT !["ret"] = out.val]
                       ELSE IF out.ok \/ r # "ret" THEN h1
                       ELSE h0
            /\ retRef' = IF ~out.ok THEN "none" ELSE IF fresh THEN "ret" ELSE r
            /\ last' = CallRec("data", None, None, <<normalize, decorrelate>>, out.exc)
    /\ UNCHANGED <<n, nbins, _data, _cov, applied>>
CallNormalized == Returns("normalized", NoFlags, normalized(Self))
CallCorr == Returns("corr", NoFlags, corr(Self))
CallErr == \E relative \in BOOLEAN : Returns("err", <<relative, FALSE>>, err(Self, relative))
CallChi2Metric == Returns("chi2_metric", NoFlags, chi2_metric(Self))

\* cov(): return self._cov hands out the array itself, no new array is made
CallCov ==
  \E relative \in BOOLEAN :
    LET out == cov(Self, relative) IN
    /\ calls < MaxCalls
    /\ calls' = calls + 1
    /\ heap' = [heap EXCEPT !["ret"] = None]
    /\ retRef' = IF out.ok THEN _cov ELSE "none"
    /\ last' = CallRec("cov", None, None, <<relative, FALSE>>, out.exc)
    /\ UNCHANGED <<n, nbins, _data, _cov, applied>>

\* the caller stores into an array it holds: the one it gave to __init__ ...
CallerWriteArg ==
  /\ calls < MaxCalls
  /\ calls' = calls + 1
  /\ \E idx \in Idx(heap["arg"].shape) :
       heap' = [heap EXCEPT !["arg"].at[idx] = FAdd(@, Num(1))]
  /\ last' = CallRec("caller_write_arg", None, None, NoFlags, "none")
  /\ UNCHANGED <<n, nbins, _data, _cov, retRef, applied>>

\* ... or the one the last call returned
CallerWriteRet ==
  /\ calls < MaxCalls
  /\ calls' = calls + 1
  /\ retRef # "none"
  /\ \E idx \in Idx(heap[retRef].shape) :
       heap' = [heap EXCEPT ![retRef].at[idx] = FAdd(@, Num(1))]
  /\ last' = CallRec("caller_write_ret", None, None, NoFlags, "none")
  /\ UNCHANGED <<n, nbins, _data, _cov, retRef, applied>>

Next ==
  \/ AddErrCov \/ AddErrUncorr \/ AddErrCorr
  \/ AddRelErrCov \/ AddRelErrUncorr \/ AddRelErrMaxcorr \/ AddRelErrCorr
  \/ AddPoissonError
  \/ CallNorms \/ CallData \/ CallNormalized \/ CallCov \/ CallCorr \/ CallErr
  \/ CallChi2Metric

Spec == Init /\ [][Next]_vars

NextAlias == Next \/ CallerWriteArg \/ CallerWriteRet

SpecAlias == Init /\ [][NextAlias]_vars

\* the add_* calls whose arguments have the shapes the docstrings ask for
ValidAddErrCov == AddErrCovOf({x \in CovArgs : IsShape(x, ShapeNBB)}, TRUE)
ValidAddErrUncorr == AddErrUncorrOf({x \in ErrArgs : IsShape(x, ShapeN)}, TRUE)
ValidAddErrCorr ==
  AddErrCorrOf({p \in ErrCorrArgs : IsShape(p[1], ShapeN) /\ IsShape(p[2], ShapeNBB)}, TRUE)
ValidAddRelErrCov == AddRelErrCovOf({x \in RelCovArgs : IsShape(x, ShapeBB)}, TRUE)
ValidAddRelErrUncorr == AddRelErrUncorrOf({x \in RelErrArgs : IsShape(x, ShapeB)}, TRUE)
ValidAddRelErrMaxcorr ==
  AddRelErrMaxcorrOf({x \in MaxcorrArgs : x.py = "float" \/ IsShape(x, ShapeB)}, TRUE)
ValidAddRelErrCorr ==
  AddRelErrCorrOf({p \in RelErrCorrArgs : IsShape(p[1], ShapeB) /\ IsShape(p[2], ShapeBB)}, TRUE)
ValidAddPoissonError == AddPoissonErrorOf(TRUE)

NextValid ==
  \/ ValidAddErrCov \/ ValidAddErrUncorr \/ ValidAddErrCorr
  \/ ValidAddRelErrCov \/ ValidAddRelErrUncorr \/ ValidAddRelErrMaxcorr
  \/ ValidAddRelErrCorr \/ ValidAddPoissonError

\* error injection as documented, in any order
SpecValid == Init /\ [][NextValid]_vars

(* ------------------------------- claims -------------------------------- *)

InjectOps ==
  {"add_err_cov", "add_err_uncorr", "add_err_corr", "add_rel_err_cov",
   "add_rel_err_uncorr", "add_rel_err_maxcorr", "add_rel_err_corr", "add_poisson_error"}

IsScalar(x) == x.shape = << >> /\ x.py \in {"float", "int"}

\* whether the arguments of call c have the shapes its method documents
Contract(c) ==
  IF c.op = "add_err_cov" THEN IsShape(c.a, ShapeNBB)
  ELSE IF c.op = "add_err_uncorr" THEN IsShape(c.a, ShapeN)
  ELSE IF c.op = "add_err_corr" THEN IsShape(c.a, ShapeN) /\ IsShape(c.c, ShapeNBB)
  ELSE IF c.op = "add_rel_err_cov" THEN IsShape(c.a, ShapeBB)
  ELSE IF c.op = "add_rel_err_uncorr" THEN IsShape(c.a, ShapeB)
  ELSE IF c.op = "add_rel_err_maxcorr" THEN IsScalar(c.a) \/ IsShape(c.a, ShapeB)
  ELSE IF c.op = "add_rel_err_corr" THEN IsShape(c.a, ShapeB) /\ IsShape(c.c, ShapeBB)
  ELSE TRUE

Called(op) == calls' = calls + 1 /\ last'.op = op
CalledInject == calls' = calls + 1 /\ last'.op \in InjectOps

\* C1: an add_* call whose argument does not have the documented shape is
\* rejected with an exception and leaves the accumulated covariance as it was.
C1_ShapeMismatchRejected ==
  [][(CalledInject /\ ~Contract(last'))
       => (last'.exc # "none" /\ heap'[_cov] = heap[_cov])]_vars

\* C2: an array a call returned is independent of the dataset: a caller's
\* store into it changes neither _data nor _cov, and a later add_* call does
\* not change it.
C2_ReturnedArraysIndependent ==
  [][/\ Called("caller_write_ret") => (heap'[_cov] = heap[_cov] /\ heap'[_data] = heap[_data])
     /\ (CalledInject /\ retRef # "none") => heap'[retRef] = heap[retRef]]_vars

\* C3: after construction a caller's store into the array it passed to
\* __init__ changes nothing the dataset computes norms(), data(), cov() and
\* err() from.
C3_ConstructorArgumentNotShared ==
  [][Called("caller_write_arg")
       => (heap'[_data] = heap[_data] /\ heap'[_cov] = heap[_cov])]_vars

\* C4: no operation of the dataset changes the stored histogram batch, n or
\* nbins.
C4_DataNeverMutated ==
  [][heap'[_data'] = heap[_data] /\ n' = n /\ nbins' = nbins]_vars

\* data(normalize=True) has returned an array that differs from the stored batch
C4_Witness ==
  /\ last.op = "data" /\ last.flags = <<TRUE, FALSE>> /\ last.exc = "none"
  /\ heap[retRef] # heap[_data]

\* what call c adds to a dataset whose covariance is still zero
Run(self, c) ==
  IF c.op = "add_err_cov" THEN add_err_cov(self, c.a)
  ELSE IF c.op = "add_err_uncorr" THEN add_err_uncorr(self, c.a)
  ELSE IF c.op = "add_err_corr" THEN add_err_corr(self, c.a, c.c)
  ELSE IF c.op = "add_rel_err_cov" THEN add_rel_err_cov(self, c.a)
  ELSE IF c.op = "add_rel_err_uncorr" THEN add_rel_err_uncorr(self, c.a)
  ELSE IF c.op = "add_rel_err_maxcorr" THEN add_rel_err_maxcorr(self, c.a)
  ELSE IF c.op = "add_rel_err_corr" THEN add_rel_err_corr(self, c.a, c.c)
  ELSE add_poisson_error(self)

Contribution(c) == Run([Self EXCEPT !.cov = Zeros(ShapeNBB)], c).val

RECURSIVE SumOfContributions(_)
SumOfContributions(B) ==
  IF B = EmptyBag THEN Zeros(ShapeNBB)
  ELSE LET c == CHOOSE x \in BagToSet(B) : TRUE
           Plus(x, y) == Arr(ShapeNBB, [idx \in Idx(ShapeNBB) |-> FAdd(x.at[idx], y.at[idx])])
       IN Plus(SumOfContributions(B (-) SetToBag({c})), Contribution(c))

\* C5: whatever the order of the valid add_* calls made so far, _cov is the
\* sum of their contributions, starting from the zero tensor.
C5_OrderIndependent == heap[_cov] = SumOfContributions(applied)

\* two different calls have been made, each adding something
C5_Witness ==
  /\ Cardinality(BagToSet(applied)) = 2
  /\ \A c \in BagToSet(applied) : Contribution(c) # Zeros(ShapeNBB)
  /\ \E c \in BagToSet(applied) : heap[_cov] # Contribution(c)

\* C6: data(normalize=True) returns data[k, i] / norms()[k] at every [k, i].
C6_NormalizeDividesByOwnNorm ==
  (last.op = "data" /\ last.flags = <<TRUE, FALSE>>)
    => /\ last.exc = "none"
       /\ heap[retRef].shape = ShapeN
       /\ \A idx \in Idx(ShapeN) :
            heap[retRef].at[idx] = FDiv(heap[_data].at[idx], norms(Self).at[<<idx[1]>>])

\* C7: the matrix chi2_metric returns is symmetric.
C7_Chi2Symmetric ==
  (last.op = "chi2_metric" /\ last.exc = "none")
    => \A k \in 1..n, l \in 1..n : heap[retRef].at[<<k, l>>] = heap[retRef].at[<<l, k>>]

\* chi2_metric has returned a matrix with a nonzero number off the diagonal
C7_Witness ==
  /\ last.op = "chi2_metric" /\ last.exc = "none" /\ n >= 2
  /\ heap[retRef].at[<<1, 2>>].fin /\ heap[retRef].at[<<1, 2>>].v > 0

\* C8: whatever errors were injected (none included), the matrix chi2_metric
\* returns is zero on the diagonal and non-negative everywhere.
C8_DiagonalAlwaysZero ==
  (last.op = "chi2_metric" /\ last.exc = "none")
    => /\ \A k \in 1..n : heap[retRef].at[<<k, k>>] = F(0)
       /\ \A idx \in Idx(<<n, n>>) : FGeqZero(heap[retRef].at[idx])

SymmetricNonneg(a) ==
  \A k \in 1..a.shape[1], i \in 1..a.shape[2], j \in 1..a.shape[3] :
    /\ a.at[<<k, i, j>>] = a.at[<<k, j, i>>]
    /\ FGeqZero(a.at[<<k, i, i>>])

\* C9: after any sequence of add_* calls every _cov[k] is symmetric with a
\* non-negative diagonal.
C9_CovSymmetric == SymmetricNonneg(heap[_cov])

\* the length-nbins vector [s, ..., s]
Repeat(x) == Arr(ShapeB, [idx \in Idx(ShapeB) |-> x.at[<< >>]])

\* C10: add_rel_err_maxcorr(s) with a scalar s does not fail and leaves the
\* covariance add_rel_err_maxcorr([s, ..., s]) leaves.
C10_ScalarBroadcast ==
  [][(Called("add_rel_err_maxcorr") /\ IsScalar(last'.a))
       => /\ last'.exc = "none"
          /\ heap'[_cov] = add_rel_err_maxcorr(Self, Repeat(last'.a)).val]_vars

====
